---- MODULE Spec2Model ----
(***************************************************************************)
(* Lesson generation service: the create endpoint POST, the detached       *)
(* orchestrator generateLessonContent with its fallback chain              *)
(* (Helicone -> Gemini -> mock), and the lessons table it writes.          *)
(*                                                                         *)
(* Text is a sequence of pieces.  An outline is a sequence of one-         *)
(* character strings.  A fixed literal of the source (a prompt template,   *)
(* a mock template body, a code fence) is one piece.  An optional value    *)
(* (null / undefined in the source) is a sequence of length 0 or 1.        *)
(*                                                                         *)
(* Store calls follow the client library's contract used by the source:    *)
(* they resolve to {data, error} and do not throw; a call that reports an  *)
(* error has not changed the table.                                        *)
(***************************************************************************)
EXTENDS Integers, Sequences, FiniteSets, TLC

\* ------------------------------------------------------------------ bounds
\* Number of create requests the clients send.
MaxRequests == 2

\* ------------------------------------------------------- program constants
\* extractTitle: number of words kept, and the longest title kept whole.
TitleWords == 6
TitleMaxLen == 50

\* ----------------------------------------------------------- option values
None == << >>
Some(x) == << x >>
IsSome(o) == Len(o) = 1
Get(o) == o[1]

\* ------------------------------------------------------------------- text
\* String.prototype.substring(0, n)
Substring0(s, n) == SubSeq(s, 1, IF Len(s) < n THEN Len(s) ELSE n)

\* String.prototype.includes(sub)
Includes(s, sub) ==
  \E i \in 1..(Len(s) - Len(sub) + 1) : SubSeq(s, i, i + Len(sub) - 1) = sub

\* String.prototype.toLowerCase(), on the characters outlines are built from.
LowerChar(c) ==
  CASE c = "K" -> "k"
    [] c = "O" -> "o"
    [] c = "N" -> "n"
    [] c = "A" -> "a"
    [] c = "M" -> "m"
    [] c = "I" -> "i"
    [] c = "U" -> "u"
    [] c = "P" -> "p"
    [] c = "D" -> "d"
    [] c = "W" -> "w"
    [] OTHER -> c
ToLowerCase(s) == [i \in 1..Len(s) |-> LowerChar(s[i])]

Whitespace == {" ", "\t", "\n"}

\* String.prototype.trim()
RECURSIVE TrimLeft(_)
TrimLeft(s) ==
  IF s # << >> /\ Head(s) \in Whitespace THEN TrimLeft(Tail(s)) ELSE s
RECURSIVE TrimRight(_)
TrimRight(s) ==
  IF s # << >> /\ s[Len(s)] \in Whitespace
  THEN TrimRight(SubSeq(s, 1, Len(s) - 1)) ELSE s
Trim(s) == TrimRight(TrimLeft(s))

\* String.prototype.split(' '): the pieces between single space characters.
RECURSIVE SplitFrom(_, _)
SplitFrom(s, cur) ==
  IF s = << >> THEN << cur >>
  ELSE IF Head(s) = " " THEN << cur >> \o SplitFrom(Tail(s), << >>)
  ELSE SplitFrom(Tail(s), Append(cur, Head(s)))
SplitSpace(s) == SplitFrom(s, << >>)

\* Array.prototype.join(' ')
RECURSIVE JoinSpace(_)
JoinSpace(ws) ==
  IF ws = << >> THEN << >>
  ELSE IF Len(ws) = 1 THEN ws[1]
  ELSE ws[1] \o << " " >> \o JoinSpace(Tail(ws))

\* route.ts extractTitle
extractTitle(outline) ==
  LET words == JoinSpace(SubSeq(SplitSpace(outline), 1,
                   IF Len(SplitSpace(outline)) < TitleWords
                   THEN Len(SplitSpace(outline)) ELSE TitleWords))
  IN IF Len(words) > TitleMaxLen
     THEN Substring0(words, TitleMaxLen) \o << ".", ".", "." >>
     ELSE words


\* --------------------------------------------------------- lessons table
\* A record with the key k set to v (object property assignment; a key that
\* was never assigned is undefined and is dropped when the object is stored).
Put(rec, k, v) ==
  [x \in (DOMAIN rec) \cup {k} |-> IF x = k THEN v ELSE rec[x]]

\* .insert(fields).select().single(): the new row.  The store generates id
\* and created_at; columns not given are null.  Ids are opaque and only ever
\* compared for equality, so the id given to the row of the r-th request is
\* named r.
NewRow(r, fields) ==
  [id |-> r,
   outline |-> fields.outline,
   title |-> fields.title,
   content |-> IF "content" \in DOMAIN fields THEN fields.content ELSE None,
   status |-> fields.status,
   trace |-> None,
   created_at |-> "ISO-8601"]

\* Mutant: the update replaces the row: columns not given become null.
StoreUpdateReplacesRow(rows, id, fields) ==
  { IF row.id = id
    THEN [k \in DOMAIN row |->
            IF k \in DOMAIN fields THEN fields[k]
            ELSE IF k = "id" THEN row.id ELSE None]
    ELSE row : row \in rows }

\* Mutant: the update is not filtered by id.
StoreUpdateEveryRow(rows, id, fields) ==
  { [k \in DOMAIN row |-> IF k \in DOMAIN fields THEN fields[k] ELSE row[k]] :
      row \in rows }

\* .update(fields).eq('id', id): every row whose id matches takes the given
\* columns and keeps the others.
StoreUpdate(rows, id, fields) ==
  { IF row.id = id
    THEN [k \in DOMAIN row |-> IF k \in DOMAIN fields THEN fields[k] ELSE row[k]]
    ELSE row : row \in rows }

\* ------------------------------------------------------ provider adapters
\* The piece standing for a code fence, three backquote characters.
Fence == "<fence>"

\* s.replace(/<pat>\n?/g, ''), pat a sequence of pieces.
RECURSIVE RemoveAll(_, _)
RemoveAll(s, pat) ==
  IF Len(s) < Len(pat) THEN s
  ELSE IF SubSeq(s, 1, Len(pat)) = pat
       THEN LET rest == SubSeq(s, Len(pat) + 1, Len(s))
            IN RemoveAll(IF rest # << >> /\ Head(rest) = "\n"
                         THEN Tail(rest) ELSE rest, pat)
       ELSE << Head(s) >> \o RemoveAll(Tail(s), pat)

\* The clean-up both adapters apply to the provider's text.
StripFences(text) ==
  Trim(RemoveAll(RemoveAll(RemoveAll(text, << Fence, "typescript" >>),
                           << Fence, "ts" >>),
                 << Fence >>))

\* Provider texts the adapters are exercised with.
Code == << "x" >>
FencedCode == << Fence, "typescript", "\n", "x", "\n", Fence >>
ProviderTexts ==
  { << >>,
    Code,
    FencedCode,
    << Fence, "ts", "\n", "x", "\n", Fence, "\n" >>,
    << Fence, "\n", Fence >>,
    << " ", "\n" >> }

\* Outcomes of openai.chat.completions.create: the SDK throws (network
\* failure, non-2xx status), or resolves to a completion whose choices may be
\* empty and whose message content may be null.
HeliconeCompletion(choices) == [threw |-> FALSE, choices |-> choices]
HeliconeThrows == [threw |-> TRUE, choices |-> << >>]
AllHeliconeResponses ==
  { HeliconeThrows, HeliconeCompletion(<< >>),
    HeliconeCompletion(<< [content |-> None] >>) }
  \cup { HeliconeCompletion(<< [content |-> Some(t)] >>) : t \in ProviderTexts }

\* Outcomes of the fetch to the Gemini endpoint: the fetch rejects, the
\* status is not ok, the body is not JSON, or a JSON body with optional
\* candidates, each with optional content.parts, each part with optional
\* text.
GeminiBody(candidates) ==
  [rejected |-> FALSE, ok |-> TRUE, json |-> TRUE,
   body |-> [candidates |-> candidates]]
GeminiText(text) ==
  GeminiBody(Some(<< [parts |-> Some(<< [text |-> text] >>)] >>))
GeminiNotOk ==
  [rejected |-> FALSE, ok |-> FALSE, json |-> FALSE,
   body |-> [candidates |-> None]]
AllGeminiResponses ==
  { [rejected |-> TRUE, ok |-> FALSE, json |-> FALSE,
     body |-> [candidates |-> None]],
    GeminiNotOk,
    [rejected |-> FALSE, ok |-> TRUE, json |-> FALSE,
     body |-> [candidates |-> None]],
    GeminiBody(None),
    GeminiBody(Some(<< >>)),
    GeminiBody(Some(<< [parts |-> None] >>)),
    GeminiBody(Some(<< [parts |-> Some(<< >>)] >>)),
    GeminiText(None) }
  \cup { GeminiText(Some(t)) : t \in ProviderTexts }

\* The provider outcomes the orchestrator is run against: a failure, a
\* result that cleans to text and a result that cleans to nothing, for each
\* provider.
HeliconeResponses ==
  { HeliconeThrows, HeliconeCompletion(<< >>),
    HeliconeCompletion(<< [content |-> Some(FencedCode)] >>) }
GeminiResponses ==
  { GeminiNotOk, GeminiText(Some(<< Fence, "\n", Fence >>)),
    GeminiText(Some(FencedCode)) }

\* The result of an adapter call: it threw message, or returned value and
\* left trace as given.
Threw(msg, trace) ==
  [threw |-> TRUE, message |-> msg, value |-> << >>, trace |-> trace]
Returned(value, trace) ==
  [threw |-> FALSE, message |-> "", value |-> value, trace |-> trace]

\* route.ts generateWithHelicone
generateWithHelicone(prompt, trace, resp) ==
  IF resp.threw THEN Threw("OpenAI request failed", trace)
  ELSE LET content ==
             IF resp.choices # << >> /\ IsSome(resp.choices[1].content)
             THEN Get(resp.choices[1].content) ELSE << >>
           cleaned == StripFences(content)
       IN Returned(cleaned,
                   Put(Put(trace, "response_metadata", "completion"),
                       "output", cleaned))

\* route.ts generateWithGemini
generateWithGemini(prompt, trace, resp) ==
  IF resp.rejected THEN Threw("fetch failed", trace)
  ELSE IF ~resp.ok THEN Threw("Gemini API returned status", trace)
  ELSE IF ~resp.json THEN Threw("Unexpected token in JSON", trace)
  ELSE IF ~IsSome(resp.body.candidates) \/ Get(resp.body.candidates) = << >>
       THEN Threw("Invalid response structure from Gemini API", trace)
  ELSE LET candidate == Get(resp.body.candidates)[1]
       IN IF ~IsSome(candidate.parts) \/ Get(candidate.parts) = << >>
          THEN Threw("No content in Gemini API response", trace)
          ELSE LET text == Get(candidate.parts)[1].text
               IN IF ~IsSome(text)
                  THEN Threw("Cannot read properties of undefined", trace)
                  ELSE LET content == StripFences(Get(text))
                       IN Returned(content,
                                   Put(Put(trace, "output", content),
                                       "response_metadata", "candidate"))

\* route.ts generateMockLesson
generateMockLesson(outline, isEasterEgg) ==
  IF isEasterEgg THEN << "// KONAMI CODE EASTER EGG ..." >>
  ELSE << "// TypeScript Educational Module\n// Topic: " >> \o outline
       \o << "\n\ninterface Question ... export { Quiz, Question };" >>


\* ------------------------------------------------------------------ state
VARIABLES
  env,      \* process.env: which provider credentials are configured
  lessons,  \* the lessons table: the set of its rows
  post,     \* per create request: the position of POST and its response
  gen,      \* per create request: the generateLessonContent invocation
  client    \* the page Home: its lesson list and its fetchLessons calls

vars == << env, lessons, post, gen, client >>

Requests == 1..MaxRequests

\* Outlines the clients send: empty, whitespace only, two words.
Outlines ==
  { << >>,
    << " ", " " >>,
    << "a", " ", "b" >> }

\* Request bodies: not JSON, JSON without outline, JSON with an outline.
Bodies ==
  { [json |-> FALSE, outline |-> None], [json |-> TRUE, outline |-> None] }
  \cup { [json |-> TRUE, outline |-> Some(o)] : o \in Outlines }

\* What a store call resolves to: no error, or an error object.
StoreOk == [error |-> None]
StoreError == [error |-> Some([instanceOfError |-> TRUE, message |-> "store error"])]
StoreResults == { StoreOk, StoreError }

\* new Date().toISOString()
Now == "ISO-8601"

\* error instanceof Error ? error.message : String(error)
ErrorMessage(e) == IF e.instanceOfError THEN e.message ELSE "[object Object]"

\* NextResponse.json(...)
Response(code, lessonId, status, error) ==
  [code |-> code, lessonId |-> lessonId, status |-> status, error |-> error]

\* ------------------------------------------------- generateLessonContent
\* An invocation that was never dispatched.  Besides the position (pc), the
\* parameters and the locals, the record keeps what the invocation has done
\* so far: calls, the strategies started, in order; failed, the adapters
\* whose call threw; messages, the message of each of those errors;
\* returned, the text the adapter call that did not throw came back with;
\* updates, the status of each terminal update issued; results, how each
\* resolved; rejected, whether an error left the function.
NoGen ==
  [pc |-> "none", lessonId |-> 0, outline |-> << >>, isEasterEgg |-> FALSE,
   prompt |-> << >>, trace |-> [prompt |-> << >>, timestamp |-> Now],
   content |-> None, caught |-> None,
   calls |-> << >>, failed |-> << >>, messages |-> << >>, returned |-> None,
   updates |-> << >>, results |-> << >>, rejected |-> FALSE]

\* The trace object as first built.
InitialTrace(outline) ==
  [prompt |-> << "Generate a TypeScript educational module for: " >> \o outline,
   timestamp |-> Now]

\* Easter egg detection.
IsEasterEgg(outline) ==
  \/ Includes(ToLowerCase(outline), << "k", "o", "n", "a", "m", "i" >>)
  \/ Includes(ToLowerCase(outline),
              << "u", "p", " ", "u", "p", " ", "d", "o", "w", "n", " ",
                 "d", "o", "w", "n" >>)

\* The prompt handed to the adapters.
BuildPrompt(outline, isEasterEgg) ==
  IF isEasterEgg
  THEN << "Generate a fun, retro TypeScript gaming Easter egg! ..." >>
  ELSE << "Generate a complete, executable TypeScript module ... outline: " >>
       \o outline \o << " Requirements: ..." >>

\* Mutant: the Generated update writes content and trace, not status.
GeneratedFieldsWithoutStatus(content, trace) ==
  [content |-> Some(content), trace |-> Some(trace)]

\* The columns of the Generated update.
GeneratedFields(content, trace) ==
  [content |-> Some(content), status |-> "Generated", trace |-> Some(trace)]

\* Mutant: the Failed trace carries the timestamp only.
FailedFieldsWithoutError(e) ==
  [status |-> "Failed", trace |-> Some([timestamp |-> Now])]

\* The columns of the Failed update.
FailedFields(e) ==
  [status |-> "Failed",
   trace |-> Some(IF e.instanceOfError
                  THEN [error |-> ErrorMessage(e), stack |-> "stack",
                        timestamp |-> Now]
                  ELSE [error |-> ErrorMessage(e), timestamp |-> Now])]

\* await supabase.from('lessons').update({content, status, trace}): the call
\* is issued and the invocation waits for its result.
IssueGeneratedUpdate(g) ==
  [g EXCEPT !.pc = "updating", !.updates = Append(@, "Generated")]

\* trace.provider = 'helicone'; ...; await generateWithHelicone(prompt, trace)
CallHelicone(g) ==
  [g EXCEPT !.pc = "helicone",
            !.trace = Put(Put(@, "provider", "helicone"), "model", "gpt-4o-mini"),
            !.calls = Append(@, "helicone")]

\* trace.provider = 'gemini'; ...; await generateWithGemini(prompt, trace)
CallGemini(g) ==
  [g EXCEPT !.pc = "gemini",
            !.trace = Put(Put(@, "provider", "gemini"), "model", "gemini-2.5-flash"),
            !.calls = Append(@, "gemini")]

\* Mutant: the mock content is stored without the mock flag.
UseMockWithoutFlag(g, reason) ==
  LET content == generateMockLesson(g.outline, g.isEasterEgg)
  IN IssueGeneratedUpdate(
       [g EXCEPT !.content = Some(content),
                 !.trace = Put(g.trace, "output", content),
                 !.calls = Append(@, "mock")])

\* content = generateMockLesson(...); trace.output; trace.mock; and, after a
\* failed adapter, trace.fallback_reason; then on to the Generated update.
UseMock(g, reason) ==
  LET content == generateMockLesson(g.outline, g.isEasterEgg)
      t1 == Put(Put(g.trace, "output", content), "mock", TRUE)
      t2 == IF IsSome(reason) THEN Put(t1, "fallback_reason", Get(reason)) ELSE t1
  IN IssueGeneratedUpdate(
       [g EXCEPT !.content = Some(content), !.trace = t2,
                 !.calls = Append(@, "mock")])

\* Mutant: Gemini is preferred to Helicone.
FirstAttemptGeminiFirst(g) ==
  IF env.GEMINI_API_KEY THEN CallGemini(g)
  ELSE IF env.HELICONE_API_KEY THEN CallHelicone(g)
  ELSE UseMock(g, None)

\* The choice of the first strategy.
FirstAttempt(g) ==
  IF env.HELICONE_API_KEY THEN CallHelicone(g)
  ELSE IF env.GEMINI_API_KEY THEN CallGemini(g)
  ELSE UseMock(g, None)

\* Mutant: the Helicone failure is recorded in the trace as a fallback even
\* when Gemini is tried next.
AfterHeliconeFailureFlagged(g, message) ==
  IF env.GEMINI_API_KEY
  THEN CallGemini([g EXCEPT !.trace =
                     Put(Put(@, "mock", TRUE), "fallback_reason", message)])
  ELSE UseMock(g, Some(message))

\* Mutant: a failed Helicone call is attempted a second time.
AfterHeliconeFailureRetried(g, message) ==
  IF Len(g.failed) < 2 THEN CallHelicone(g)
  ELSE IF env.GEMINI_API_KEY THEN CallGemini(g)
  ELSE UseMock(g, Some(message))

\* catch (error) of the Helicone attempt.
AfterHeliconeFailure(g, message) ==
  IF env.GEMINI_API_KEY THEN CallGemini(g)
  ELSE UseMock(g, Some(message))

\* Mutant: the mock fallback after a Gemini failure records no reason.
AfterGeminiFailureWithoutReason(g, message) == UseMock(g, None)

\* catch (error2) / catch (error) of a Gemini attempt.
AfterGeminiFailure(g, message) == UseMock(g, Some(message))

\* Mutant: the adapter's text is dropped and the mock generator used.
AfterAdapterSuccessDiscarded(g, res) == UseMock(g, None)

\* An adapter returned: content = its value, then on to the Generated update.
AfterAdapterSuccess(g, res) ==
  IssueGeneratedUpdate([g EXCEPT !.content = Some(res.value), !.trace = res.trace])

\* The invocation from its call to its first await.
generateLessonContent(lessonId, outline) ==
  FirstAttempt(
    [NoGen EXCEPT !.lessonId = lessonId, !.outline = outline,
                  !.isEasterEgg = IsEasterEgg(outline),
                  !.prompt = BuildPrompt(outline, IsEasterEgg(outline)),
                  !.trace = InitialTrace(outline)])

\* The invocation has returned: its locals are gone; what it did stays
\* on record.
Finished(g) ==
  [NoGen EXCEPT !.pc = "done", !.lessonId = g.lessonId, !.calls = g.calls,
                !.failed = g.failed, !.messages = g.messages,
                !.updates = g.updates, !.results = g.results,
                !.rejected = g.rejected]

\* Mutant: the update error is logged and not thrown, so no Failed update
\* follows.
OnUpdateErrorSwallowed(g, e) == Finished(g)

\* if (updateError) throw updateError; caught by the outer catch, which
\* issues the Failed update and waits for it.  The locals of the try block
\* (trace, prompt, content) are out of scope in the catch block.
OnUpdateError(g, e) ==
  [NoGen EXCEPT !.pc = "failing", !.lessonId = g.lessonId,
                !.outline = g.outline, !.caught = Some(e),
                !.calls = g.calls, !.failed = g.failed,
                !.messages = g.messages,
                !.updates = Append(g.updates, "Failed"),
                !.results = g.results, !.rejected = g.rejected]

\* Mutant: after a successful Generated update the invocation waits on
\* something that never settles.
OnUpdateOkNeverReturns(g) == [g EXCEPT !.pc = "waiting"]

\* The Generated update resolved without error: the invocation is over.
OnUpdateOk(g) == Finished(g)

\* Mutant: an error of the Failed update is thrown out of the catch block.
OnFailedUpdateResultRethrown(g, result) ==
  Finished([g EXCEPT !.rejected = IsSome(result.error)])

\* The Failed update resolved; its result is not looked at.
OnFailedUpdateResult(g, result) == Finished(g)

\* ------------------------------------------------------------------- POST
\* A request not yet sent.  body is the request body once POST has read it,
\* outline the destructured outline, response what POST returned, and
\* insertError whether the insert reported an error.
NoPost ==
  [pc |-> "idle", body |-> None, outline |-> << >>, response |-> None,
   insertError |-> FALSE]

\* if (!outline)
Falsy(outline) == ~IsSome(outline) \/ Get(outline) = << >>

\* Mutant: the row is inserted with an empty content.
InsertFieldsWithContent(outline) ==
  [outline |-> outline, title |-> extractTitle(outline), status |-> "Generating",
   content |-> Some(<< >>)]

\* The row handed to insert.
InsertFields(outline) ==
  [outline |-> outline, title |-> extractTitle(outline), status |-> "Generating"]

\* ------------------------------------------------------------- page Home
\* The page before its effect has run: lessons is the list it shows;
\* delivered, the number of change notifications of the lessons table its
\* realtime handler has been called for; reading, the number of fetchLessons
\* calls whose select the store has not answered yet; responses, the answers
\* on their way back to the page.
NoClient ==
  [lessons |-> { }, delivered |-> 0, reading |-> 0, responses |-> { }]

\* fetchLessons() up to its await: the select is sent.
fetchLessons(c) == [c EXCEPT !.reading = @ + 1]

\* The page once mounted: the effect has called fetchLessons() and
\* subscribed to the changes of the lessons table.
Mounted == fetchLessons(NoClient)

Init ==
  /\ env \in [HELICONE_API_KEY : BOOLEAN, GEMINI_API_KEY : BOOLEAN]
  /\ lessons = { }
  /\ post = [r \in Requests |-> NoPost]
  /\ gen = [r \in Requests |-> NoGen]
  /\ client = Mounted

\* POST up to its first store call: parse the body, validate the outline.
\* Requests are numbered in the order they arrive.
PostReceive(r, body) ==
  /\ post[r].pc = "idle"
  /\ IF r = 1 THEN TRUE ELSE post[r - 1].pc # "idle"
  /\ post' = [post EXCEPT ![r] =
       IF ~body.json
       THEN [@ EXCEPT !.pc = "returned", !.body = Some(body),
               !.response = Some(Response(500, None, None, Some("Internal server error")))]
       ELSE IF Falsy(body.outline)
       THEN [@ EXCEPT !.pc = "returned", !.body = Some(body),
               !.response = Some(Response(400, None, None, Some("Outline is required")))]
       ELSE [@ EXCEPT !.pc = "inserting", !.body = Some(body),
               !.outline = Get(body.outline)]]
  /\ UNCHANGED << env, lessons, gen, client >>

\* Mutant: the insert error is answered with 500 but generation is
\* dispatched all the same.
InsertFailedStillDispatches(r) ==
  /\ post' = [post EXCEPT ![r] =
       [@ EXCEPT !.pc = "returned", !.insertError = TRUE,
          !.response = Some(Response(500, None, None, Some("Failed to create lesson")))]]
  /\ gen' = [gen EXCEPT ![r] = generateLessonContent(r, post[r].outline)]
  /\ UNCHANGED lessons

\* if (insertError) return 500
InsertFailed(r) ==
  /\ post' = [post EXCEPT ![r] =
       [@ EXCEPT !.pc = "returned", !.insertError = TRUE,
          !.response = Some(Response(500, None, None, Some("Failed to create lesson")))]]
  /\ UNCHANGED << lessons, gen >>

\* Mutant: generateLessonContent is awaited (here on its mock path) before
\* the response is returned.
InsertSucceededAwaited(r) ==
  LET lesson == NewRow(r, InsertFields(post[r].outline))
      g == UseMock([NoGen EXCEPT !.lessonId = lesson.id,
                                 !.outline = post[r].outline,
                                 !.trace = InitialTrace(post[r].outline)], None)
  IN /\ lessons' = lessons \cup StoreUpdate({lesson}, lesson.id,
                                  GeneratedFields(Get(g.content), g.trace))
     /\ gen' = [gen EXCEPT ![r] = Finished([g EXCEPT !.results = << "ok" >>])]
     /\ post' = [post EXCEPT ![r] =
          [@ EXCEPT !.pc = "returned",
             !.response = Some(Response(200, Some(lesson.id), Some("Generating"), None))]]

\* The insert created the row: dispatch generateLessonContent without
\* awaiting it and return the response.
InsertSucceeded(r) ==
  LET lesson == NewRow(r, InsertFields(post[r].outline))
  IN /\ lessons' = lessons \cup {lesson}
     /\ gen' = [gen EXCEPT ![r] = generateLessonContent(lesson.id, post[r].outline)]
     /\ post' = [post EXCEPT ![r] =
          [@ EXCEPT !.pc = "returned",
             !.response = Some(Response(200, Some(lesson.id), Some("Generating"), None))]]

\* The insert resolves.
InsertReturn(r, result) ==
  /\ post[r].pc = "inserting"
  /\ IF IsSome(result.error) THEN InsertFailed(r) ELSE InsertSucceeded(r)
  /\ UNCHANGED << env, client >>

\* The client receives the response.
ClientReceive(r) ==
  /\ post[r].pc = "returned"
  /\ post' = [post EXCEPT ![r] = [@ EXCEPT !.pc = "received"]]
  /\ UNCHANGED << env, lessons, gen, client >>

\* The Helicone call settles.
HeliconeReturn(r, resp) ==
  /\ gen[r].pc = "helicone"
  /\ LET res == generateWithHelicone(gen[r].prompt, gen[r].trace, resp)
     IN gen' = [gen EXCEPT ![r] =
          IF res.threw
          THEN AfterHeliconeFailure(
                 [@ EXCEPT !.failed = Append(@, "helicone"),
                           !.messages = Append(@, res.message)],
                 res.message)
          ELSE AfterAdapterSuccess([@ EXCEPT !.returned = Some(res.value)], res)]
  /\ UNCHANGED << env, lessons, post, client >>

\* The Gemini call settles.
GeminiReturn(r, resp) ==
  /\ gen[r].pc = "gemini"
  /\ LET res == generateWithGemini(gen[r].prompt, gen[r].trace, resp)
     IN gen' = [gen EXCEPT ![r] =
          IF res.threw
          THEN AfterGeminiFailure(
                 [@ EXCEPT !.failed = Append(@, "gemini"),
                           !.messages = Append(@, res.message)],
                 res.message)
          ELSE AfterAdapterSuccess([@ EXCEPT !.returned = Some(res.value)], res)]
  /\ UNCHANGED << env, lessons, post, client >>

\* Mutant: an update that reports an error has been applied all the same.
GeneratedUpdateReturnAppliedOnError(r, result) ==
  /\ gen[r].pc = "updating"
  /\ gen' = [gen EXCEPT ![r] =
       IF IsSome(result.error)
       THEN OnUpdateError([@ EXCEPT !.results = Append(@, "error")],
                          Get(result.error))
       ELSE OnUpdateOk([@ EXCEPT !.results = Append(@, "ok")])]
  /\ lessons' = StoreUpdate(lessons, gen[r].lessonId,
                            GeneratedFields(Get(gen[r].content), gen[r].trace))
  /\ UNCHANGED << env, post, client >>

\* The Generated update resolves.
GeneratedUpdateReturn(r, result) ==
  /\ gen[r].pc = "updating"
  /\ IF IsSome(result.error)
     THEN /\ gen' = [gen EXCEPT ![r] =
                 OnUpdateError([@ EXCEPT !.results = Append(@, "error")],
                               Get(result.error))]
          /\ UNCHANGED lessons
     ELSE /\ gen' = [gen EXCEPT ![r] =
                 OnUpdateOk([@ EXCEPT !.results = Append(@, "ok")])]
          /\ lessons' = StoreUpdate(lessons, gen[r].lessonId,
                          GeneratedFields(Get(gen[r].content), gen[r].trace))
  /\ UNCHANGED << env, post, client >>

\* The Failed update resolves.
FailedUpdateReturn(r, result) ==
  /\ gen[r].pc = "failing"
  /\ gen' = [gen EXCEPT ![r] =
       OnFailedUpdateResult(
         [@ EXCEPT !.results = Append(@, IF IsSome(result.error) THEN "error" ELSE "ok")],
         result)]
  /\ lessons' = IF IsSome(result.error) THEN lessons
                ELSE StoreUpdate(lessons, gen[r].lessonId,
                                 FailedFields(Get(gen[r].caught)))
  /\ UNCHANGED << env, post, client >>

Next ==
  \/ \E r \in Requests, body \in Bodies : PostReceive(r, body)
  \/ \E r \in Requests, result \in StoreResults : InsertReturn(r, result)
  \/ \E r \in Requests : ClientReceive(r)
  \/ \E r \in Requests, resp \in HeliconeResponses : HeliconeReturn(r, resp)
  \/ \E r \in Requests, resp \in GeminiResponses : GeminiReturn(r, resp)
  \/ \E r \in Requests, result \in StoreResults : GeneratedUpdateReturn(r, result)
  \/ \E r \in Requests, result \in StoreResults : FailedUpdateReturn(r, result)

Spec == Init /\ [][Next]_vars

\* ------------------------------------------------------ calls that return
\* Every awaited call settles: the store answers the insert and both
\* updates, and each adapter call returns or throws.
Settles(r) ==
  /\ WF_vars(\E result \in StoreResults : InsertReturn(r, result))
  /\ WF_vars(\E resp \in HeliconeResponses : HeliconeReturn(r, resp))
  /\ WF_vars(\E resp \in GeminiResponses : GeminiReturn(r, resp))
  /\ WF_vars(\E result \in StoreResults : GeneratedUpdateReturn(r, result))
  /\ WF_vars(\E result \in StoreResults : FailedUpdateReturn(r, result))

\* The requests, each with one valid outline, and their invocations; what
\* the client does with the response has no part in it.
SettleBodies == { [json |-> TRUE, outline |-> Some(<< "a", " ", "b" >>)] }

InitSettles == Init

NextSettles ==
  \/ \E r \in Requests, body \in SettleBodies : PostReceive(r, body)
  \/ \E r \in Requests, result \in StoreResults : InsertReturn(r, result)
  \/ \E r \in Requests, resp \in HeliconeResponses : HeliconeReturn(r, resp)
  \/ \E r \in Requests, resp \in GeminiResponses : GeminiReturn(r, resp)
  \/ \E r \in Requests, result \in StoreResults : GeneratedUpdateReturn(r, result)
  \/ \E r \in Requests, result \in StoreResults : FailedUpdateReturn(r, result)

FairSpec ==
  InitSettles /\ [][NextSettles]_vars /\ \A r \in Requests : Settles(r)

\* ------------------------------------------------------ titles at creation
\* The create path alone (the title is fixed by the insert), fed with
\* outlines of up to eight words, short and long, separated by single
\* spaces, by runs of spaces, by tabs and by newlines.
Word(c, n) == [i \in 1..n |-> c]
RECURSIVE Sentence(_, _)
Sentence(ws, sep) ==
  IF ws = << >> THEN << >>
  ELSE IF Len(ws) = 1 THEN ws[1]
  ELSE ws[1] \o sep \o Sentence(Tail(ws), sep)

EightWords == [i \in 1..8 |-> << <<"a">>, <<"b">>, <<"c">>, <<"d">>, <<"e">>,
                                 <<"f">>, <<"g">>, <<"h">> >>[i]]
TitleOutlines ==
  { << "a", " ", "b", " ", "c" >>,
    Sentence(EightWords, << " " >>),
    Sentence([i \in 1..6 |-> Word("w", 9)], << " " >>),
    Sentence([i \in 1..6 |-> Word("w", IF i = 6 THEN 5 ELSE 8)], << " " >>),
    Sentence([i \in 1..7 |-> Word("w", 8)], << " " >>),
    Sentence(EightWords, << " ", " " >>),
    Sentence(EightWords, << "\t" >>),
    Sentence(EightWords, << "\n" >>),
    << " " >> \o Sentence(EightWords, << " " >>) }
TitleBodies == { [json |-> TRUE, outline |-> Some(o)] : o \in TitleOutlines }

InitTitles == Init

NextTitles ==
  \/ \E r \in Requests, body \in TitleBodies : PostReceive(r, body)
  \/ \E r \in Requests, result \in StoreResults : InsertReturn(r, result)
  \/ \E r \in Requests : ClientReceive(r)

SpecTitles == InitTitles /\ [][NextTitles]_vars

\* ----------------------------------------- deployment without credentials
\* Neither HELICONE_API_KEY nor GEMINI_API_KEY is set.  No adapter is ever
\* called, which leaves room for an outline that triggers the easter egg.
EasterEggOutline == << "K", "o", "n", "a", "m", "i" >>
NoCredentialBodies ==
  Bodies \cup { [json |-> TRUE, outline |-> Some(EasterEggOutline)] }

InitNoCredentials ==
  /\ env = [HELICONE_API_KEY |-> FALSE, GEMINI_API_KEY |-> FALSE]
  /\ lessons = { }
  /\ post = [r \in Requests |-> NoPost]
  /\ gen = [r \in Requests |-> NoGen]
  /\ client = Mounted

NextNoCredentials ==
  \/ \E r \in Requests, body \in NoCredentialBodies : PostReceive(r, body)
  \/ \E r \in Requests, result \in StoreResults : InsertReturn(r, result)
  \/ \E r \in Requests : ClientReceive(r)
  \/ \E r \in Requests, result \in StoreResults : GeneratedUpdateReturn(r, result)
  \/ \E r \in Requests, result \in StoreResults : FailedUpdateReturn(r, result)

SpecNoCredentials == InitNoCredentials /\ [][NextNoCredentials]_vars


\* ------------------------------------------------- every provider outcome
\* The program run against every shape of provider response.
InitAllResponses == Init

NextAllResponses ==
  \/ \E r \in Requests, body \in Bodies : PostReceive(r, body)
  \/ \E r \in Requests, result \in StoreResults : InsertReturn(r, result)
  \/ \E r \in Requests : ClientReceive(r)
  \/ \E r \in Requests, resp \in AllHeliconeResponses : HeliconeReturn(r, resp)
  \/ \E r \in Requests, resp \in AllGeminiResponses : GeminiReturn(r, resp)
  \/ \E r \in Requests, result \in StoreResults : GeneratedUpdateReturn(r, result)
  \/ \E r \in Requests, result \in StoreResults : FailedUpdateReturn(r, result)

SpecAllResponses == InitAllResponses /\ [][NextAllResponses]_vars

\* ------------------------------------------------------------ status feed
\* The page and the server side together, with no provider credential and
\* one outline.  The page is told of every change of the lessons table, in
\* order, and re-reads the table each time and after each successful POST;
\* the re-reads are independent requests and may return in any order.

\* The changes of the lessons table so far: one insert per row and one
\* update per row that has left Generating.
Changes ==
  Cardinality(lessons)
  + Cardinality({ row \in lessons : row.status # "Generating" })

\* handleGenerate after its await of the POST: on an ok response it calls
\* fetchLessons(), else it alerts.
handleGenerateReturn(r) ==
  /\ post[r].pc = "returned"
  /\ post' = [post EXCEPT ![r] = [@ EXCEPT !.pc = "received"]]
  /\ client' = IF Get(post[r].response).code = 200
               THEN fetchLessons(client) ELSE client
  /\ UNCHANGED << env, lessons, gen >>

\* The realtime handler is called for the next change: fetchLessons().
RealtimeNotify ==
  /\ client.delivered < Changes
  /\ client' = fetchLessons([client EXCEPT !.delivered = @ + 1])
  /\ UNCHANGED << env, lessons, post, gen >>

\* The store answers one select, with the rows as they are now or with an
\* error.
FetchRead(result) ==
  /\ client.reading > 0
  /\ client' = [client EXCEPT
       !.reading = @ - 1,
       !.responses = @ \cup { [error |-> IsSome(result.error),
                               data |-> IF IsSome(result.error) THEN { }
                                        ELSE lessons] }]
  /\ UNCHANGED << env, lessons, post, gen >>

\* One fetchLessons call resumes: if (error) return; setLessons(data || []).
FetchReturn ==
  /\ \E resp \in client.responses :
       client' = [client EXCEPT
         !.responses = @ \ { resp },
         !.lessons = IF resp.error THEN @ ELSE resp.data]
  /\ UNCHANGED << env, lessons, post, gen >>

InitFeed == InitNoCredentials

NextFeed ==
  \/ \E r \in Requests, body \in SettleBodies : PostReceive(r, body)
  \/ \E r \in Requests, result \in StoreResults : InsertReturn(r, result)
  \/ \E r \in Requests : handleGenerateReturn(r)
  \/ \E r \in Requests, result \in StoreResults : GeneratedUpdateReturn(r, result)
  \/ \E r \in Requests, result \in StoreResults : FailedUpdateReturn(r, result)
  \/ RealtimeNotify
  \/ \E result \in StoreResults : FetchRead(result)
  \/ FetchReturn

SpecFeed == InitFeed /\ [][NextFeed]_vars

\* ---------------------------------------------------------- status probe
\* GET of the status route the client fetches as /api/gemini-status
GET == [ok |-> TRUE, hasKey |-> env.GEMINI_API_KEY]

\* The client's hasGeminiKey once the probe has answered (null before).
setHasGeminiKey(data) == Some(data.hasKey)

\* hasGeminiKey === false: the warning banner, which reads "Without it, mock
\* content is generated", is rendered.
WarningBanner(hasGeminiKey) == hasGeminiKey = Some(FALSE)


\* ================================================================ claims
HasRow(id) == \E row \in lessons : row.id = id
Row(id) == CHOOSE row \in lessons : row.id = id
Elem(x, seq) == \E i \in DOMAIN seq : seq[i] = x

\* C1 (as stated): every finished invocation of generateLessonContent has
\* issued exactly one terminal store update, on every path.
C1_ExactlyOneTerminalUpdate ==
  \A r \in Requests : gen[r].pc = "done" => Len(gen[r].updates) = 1

\* C1 (amended): every finished invocation has issued one Generated update
\* and, exactly when that update reported an error, one further update that
\* sets Failed: one terminal update when the Generated update succeeds, two
\* when it reports an error, never zero and never more than two.
C1_OneUpdatePlusFailedOnError ==
  \A r \in Requests :
    /\ Len(gen[r].updates) <= 2
    /\ gen[r].pc = "done" =>
         \/ gen[r].updates = << "Generated" >> /\ gen[r].results = << "ok" >>
         \/ /\ gen[r].updates = << "Generated", "Failed" >>
            /\ Len(gen[r].results) = 2
            /\ gen[r].results[1] = "error"

\* C1 witness: an invocation finished after its Generated update reported an
\* error.
C1_Witness ==
  \E r \in Requests :
    gen[r].pc = "done" /\ gen[r].updates = << "Generated", "Failed" >>

\* C2 (as stated): after any failure inside generateLessonContent the
\* invocation ends with the record's status Failed and no error leaves the
\* function, also when the Failed update itself fails.
C2_FailureEndsInFailedStatus ==
  \A r \in Requests :
    (gen[r].pc = "done" /\ Elem("error", gen[r].results)) =>
      /\ ~gen[r].rejected
      /\ HasRow(gen[r].lessonId)
      /\ Row(gen[r].lessonId).status = "Failed"

\* C2 (amended): after a failed Generated update the invocation ends having
\* issued a Failed update, and no error leaves the function; the record's
\* status is Failed when the Failed update succeeds and is still Generating
\* when the Failed update itself fails.
C2_FailureIssuesFailedUpdate ==
  \A r \in Requests :
    /\ ~gen[r].rejected
    /\ (gen[r].pc = "done" /\ Elem("error", gen[r].results)) =>
         /\ gen[r].updates = << "Generated", "Failed" >>
         /\ HasRow(gen[r].lessonId)
         /\ Row(gen[r].lessonId).status =
              IF gen[r].results[2] = "ok" THEN "Failed" ELSE "Generating"

\* C2 witness: an invocation finished after both its Generated update and
\* its Failed update reported an error.
C2_Witness ==
  \E r \in Requests :
    gen[r].pc = "done" /\ gen[r].results = << "error", "error" >>

\* C3: every lesson record with status Generated has content present and
\* non-empty, and a trace.
C3_GeneratedHasContent ==
  \A row \in lessons :
    row.status = "Generated" =>
      IsSome(row.content) /\ Get(row.content) # << >> /\ IsSome(row.trace)

\* C4: every lesson record with status Failed has no content and a trace
\* with an error message and a timestamp.
C4_FailedHasErrorTrace ==
  \A row \in lessons :
    row.status = "Failed" =>
      /\ row.content = None
      /\ IsSome(row.trace)
      /\ {"error", "timestamp"} \subseteq DOMAIN Get(row.trace)
      /\ Get(row.trace).error # ""
      /\ Get(row.trace).timestamp # ""

\* C4 witness: a record written Failed after its Generated update reported
\* an error.
C4_Witness ==
  \E r \in Requests :
    /\ gen[r].results = << "error", "ok" >>
    /\ HasRow(gen[r].lessonId)
    /\ Row(gen[r].lessonId).status = "Failed"

\* C5: every lesson record with status Generating has no content.
C5_GeneratingHasNoContent ==
  \A row \in lessons : row.status = "Generating" => row.content = None

\* C5 witness: a record still Generating although its invocation has produced
\* content and the Generated update carrying it has resolved (with an error).
C5_Witness ==
  \E r \in Requests :
    /\ gen[r].results # << >>
    /\ HasRow(gen[r].lessonId)
    /\ Row(gen[r].lessonId).status = "Generating"


\* The request r has been read by POST.
Read(r) == post[r].pc # "idle"
\* POST has returned the response of request r.
Answered(r) == post[r].pc \in {"returned", "received"}
\* The body of request r is JSON whose outline is absent, empty or
\* whitespace only.
BlankOutline(r) ==
  /\ Get(post[r].body).json
  /\ \/ ~IsSome(Get(post[r].body).outline)
     \/ Trim(Get(Get(post[r].body).outline)) = << >>
\* The body of request r is JSON with an outline of at least one character.
NonEmptyOutline(r) ==
  /\ Get(post[r].body).json
  /\ IsSome(Get(post[r].body).outline)
  /\ Get(Get(post[r].body).outline) # << >>

\* C6: for an outline that is absent, empty or whitespace only, POST answers
\* with a 4xx status, inserts no record and dispatches no invocation.
C6_BlankOutlineRejected ==
  \A r \in Requests :
    (Read(r) /\ BlankOutline(r)) =>
      /\ Answered(r) => Get(post[r].response).code \in 400..499
      /\ ~HasRow(r)
      /\ gen[r].pc = "none"

\* C7 (as stated): for every non-empty outline the response of POST carries
\* the new record's identifier and status Generating.
C7_NonEmptyOutlineAnswered200 ==
  \A r \in Requests :
    (Answered(r) /\ NonEmptyOutline(r)) =>
      /\ Get(post[r].response).code = 200
      /\ IsSome(Get(post[r].response).lessonId)
      /\ Get(post[r].response).status = Some("Generating")

\* C7 (amended): every non-empty outline reaches the insert, and when the
\* insert succeeds POST returns the new record's identifier with status
\* Generating, and in the state in which the response is returned a record
\* with that identifier exists, with status Generating and content absent.
C7_InsertedOutlineAnswered200 ==
  [][\A r \in Requests :
       /\ (~Read(r) /\ Read(r)' /\ NonEmptyOutline(r)') =>
            post'[r].pc = "inserting"
       /\ (post[r].pc = "inserting" /\ Answered(r)' /\ ~post'[r].insertError) =>
            /\ Get(post'[r].response).code = 200
            /\ IsSome(Get(post'[r].response).lessonId)
            /\ Get(post'[r].response).status = Some("Generating")
            /\ \E row \in lessons' :
                 /\ row.id = Get(Get(post'[r].response).lessonId)
                 /\ row.outline = post[r].outline
                 /\ row.status = "Generating"
                 /\ row.content = None]_vars

\* C7 witness: a 200 response to a non-empty outline, naming a record that
\* exists.
C7_Witness ==
  \E r \in Requests :
    /\ Answered(r) /\ NonEmptyOutline(r)
    /\ Get(post[r].response).code = 200
    /\ HasRow(Get(Get(post[r].response).lessonId))

\* C8: when the insert fails POST answers 500 and the orchestrator is never
\* dispatched for the request: no adapter call, no mock run, no store update.
C8_InsertFailureNoDispatch ==
  \A r \in Requests :
    post[r].insertError =>
      /\ Answered(r)
      /\ Get(post[r].response).code = 500
      /\ gen[r].pc = "none"
      /\ gen[r].calls = << >>
      /\ gen[r].updates = << >>
      /\ ~HasRow(r)

\* C8 witness: a request whose insert reported an error.
C8_Witness ==
  \E r \in Requests : post[r].insertError /\ Answered(r)

\* The invocation of request r is waiting for an adapter or for a store
\* update.
Pending(r) == gen[r].pc \in {"helicone", "gemini", "updating", "failing"}

\* C9: after a successful insert the response is returned without waiting
\* for the orchestrator: in the state in which POST returns it, the
\* invocation is waiting for an adapter call or for its Generated update and
\* the record is still Generating.
C9_ResponseDoesNotWait ==
  [][\A r \in Requests :
       (post[r].pc = "inserting" /\ Answered(r)' /\ ~post'[r].insertError) =>
         /\ gen'[r].pc \in {"helicone", "gemini", "updating"}
         /\ gen'[r].results = << >>
         /\ \E row \in lessons' : row.id = gen'[r].lessonId /\ row.status = "Generating"]_vars

\* C9 witness: both orders at once: one client has received its response
\* while the invocation is still pending, and another invocation has made its
\* terminal update before its client has received the response.
C9_Witness ==
  \E r1, r2 \in Requests :
    /\ post[r1].pc = "received" /\ Pending(r1)
    /\ post[r2].pc = "returned" /\ gen[r2].pc = "done"
    /\ HasRow(r2) /\ Row(r2).status # "Generating"

\* The adapters whose credential is configured.
Configured ==
  (IF env.HELICONE_API_KEY THEN {"helicone"} ELSE { })
  \cup (IF env.GEMINI_API_KEY THEN {"gemini"} ELSE { })

\* C10: within one invocation the strategies are tried in the order
\* Helicone, Gemini, mock: Helicone first whenever its credential is
\* configured; Gemini only if its credential is configured and Helicone
\* failed or has no credential; mock only if every configured adapter failed
\* or none is configured.
C10_FallbackOrder ==
  \A r \in Requests :
    gen[r].pc # "none" =>
      /\ gen[r].calls \in
           { << "helicone" >>, << "helicone", "gemini" >>,
             << "helicone", "gemini", "mock" >>, << "helicone", "mock" >>,
             << "gemini" >>, << "gemini", "mock" >>, << "mock" >> }
      /\ env.HELICONE_API_KEY <=> gen[r].calls[1] = "helicone"
      /\ Elem("gemini", gen[r].calls) =>
           /\ env.GEMINI_API_KEY
           /\ ~env.HELICONE_API_KEY \/ Elem("helicone", gen[r].failed)
      /\ Elem("mock", gen[r].calls) =>
           \A a \in Configured : Elem(a, gen[r].failed)

\* C10 witness: an invocation that went through the whole chain.
C10_Witness ==
  \E r \in Requests : gen[r].calls = << "helicone", "gemini", "mock" >>

\* ------------------------------------------------------------------- C11
NoCredential == ~env.HELICONE_API_KEY /\ ~env.GEMINI_API_KEY
MockOutput(outline) == generateMockLesson(outline, IsEasterEgg(outline))

\* C11 as stated: with no provider credential configured, every invocation
\* that has terminated left its record at status Generated, with trace.mock
\* true and the mock generator's output for the outline as content.
C11_AlwaysEndsGeneratedWithMock ==
  \A r \in Requests :
    NoCredential /\ gen[r].pc = "done" =>
      /\ HasRow(gen[r].lessonId)
      /\ Row(gen[r].lessonId).status = "Generated"
      /\ IsSome(Row(gen[r].lessonId).trace)
      /\ "mock" \in DOMAIN Get(Row(gen[r].lessonId).trace)
      /\ Get(Row(gen[r].lessonId).trace).mock = TRUE
      /\ Row(gen[r].lessonId).content =
           Some(MockOutput(Row(gen[r].lessonId).outline))

\* C11 amended: with no provider credential configured, an invocation calls
\* no adapter and issues a Generated update carrying the mock generator's
\* output for the outline and trace.mock true; when that update succeeds the
\* invocation terminates with the record at status Generated with that
\* content and trace; when it reports an error the record does not end at
\* Generated.
C11_EndsGeneratedWithMockWhenUpdateSucceeds ==
  \A r \in Requests :
    NoCredential /\ gen[r].pc # "none" =>
      /\ gen[r].calls = << "mock" >>
      /\ gen[r].updates[1] = "Generated"
      /\ gen[r].pc = "updating" =>
           /\ gen[r].content = Some(MockOutput(gen[r].outline))
           /\ "mock" \in DOMAIN gen[r].trace
           /\ gen[r].trace.mock = TRUE
      /\ gen[r].pc = "done" /\ gen[r].results[1] = "ok" =>
           /\ HasRow(gen[r].lessonId)
           /\ Row(gen[r].lessonId).status = "Generated"
           /\ IsSome(Row(gen[r].lessonId).trace)
           /\ "mock" \in DOMAIN Get(Row(gen[r].lessonId).trace)
           /\ Get(Row(gen[r].lessonId).trace).mock = TRUE
           /\ Row(gen[r].lessonId).content =
                Some(MockOutput(Row(gen[r].lessonId).outline))
      /\ gen[r].pc = "done" /\ gen[r].results[1] = "error" =>
           Row(gen[r].lessonId).status \in { "Failed", "Generating" }

\* Two invocations have terminated after a successful update, one for an
\* easter-egg outline and one for an ordinary outline.
C11_Witness ==
  /\ NoCredential
  /\ \E r \in Requests :
       /\ gen[r].pc = "done" /\ gen[r].results = << "ok" >>
       /\ IsEasterEgg(Row(gen[r].lessonId).outline)
  /\ \E r \in Requests :
       /\ gen[r].pc = "done" /\ gen[r].results = << "ok" >>
       /\ ~IsEasterEgg(Row(gen[r].lessonId).outline)

\* ------------------------------------------------------------------- C12
\* Both credentials are configured, the Helicone call of invocation g threw
\* and its Gemini call returned.
HeliconeFailedGeminiSucceeded(g) ==
  /\ env.HELICONE_API_KEY /\ env.GEMINI_API_KEY
  /\ g.failed = << "helicone" >>
  /\ IsSome(g.returned)

\* C12: when both credentials are configured, Helicone fails and Gemini
\* succeeds, the Generated update is issued with the text Gemini returned as
\* content and a trace whose provider is 'gemini' and which has no mock
\* flag; when the update succeeds, the record holds exactly that content and
\* trace at status Generated.
C12_GeminiResultPersisted ==
  [][\A r \in Requests :
       /\ (HeliconeFailedGeminiSucceeded(gen'[r]) /\ gen'[r].pc = "updating") =>
            /\ gen'[r].calls = << "helicone", "gemini" >>
            /\ gen'[r].updates = << "Generated" >>
            /\ gen'[r].content = gen'[r].returned
            /\ gen'[r].trace.provider = "gemini"
            /\ "mock" \notin DOMAIN gen'[r].trace
       /\ (/\ HeliconeFailedGeminiSucceeded(gen[r])
           /\ gen[r].pc = "updating" /\ gen'[r].pc = "done") =>
            \E row \in lessons' :
              /\ row.id = gen[r].lessonId
              /\ row.status = "Generated"
              /\ row.content = gen[r].returned
              /\ row.trace = Some(gen[r].trace)
              /\ Get(row.trace).provider = "gemini"
              /\ "mock" \notin DOMAIN Get(row.trace)]_vars

\* C12 witness: an invocation whose Helicone call failed and whose Gemini
\* call returned has persisted a Generated record.
C12_Witness ==
  \E r \in Requests :
    /\ env.HELICONE_API_KEY /\ env.GEMINI_API_KEY
    /\ gen[r].pc = "done"
    /\ gen[r].failed = << "helicone" >>
    /\ gen[r].calls = << "helicone", "gemini" >>
    /\ gen[r].results = << "ok" >>
    /\ Row(gen[r].lessonId).status = "Generated"
    /\ Get(Row(gen[r].lessonId).trace).provider = "gemini"

\* ------------------------------------------------------------------- C13
\* At least one adapter is configured and the call of every configured
\* adapter of invocation g threw.
AllConfiguredFailed(g) ==
  /\ Configured # { }
  /\ \A a \in Configured : Elem(a, g.failed)

\* The trace t carries the mock flag and the given fallback reason.
MockTraceWithReason(t, message) ==
  /\ "mock" \in DOMAIN t /\ t.mock = TRUE
  /\ "fallback_reason" \in DOMAIN t /\ t.fallback_reason = message

\* C13: when every configured adapter has failed, the update the invocation
\* issues sets status Generated, not Failed, with the mock generator's output
\* as content and a trace with mock = true and fallback_reason equal to the
\* message of the last adapter that failed; a record of such an invocation
\* is Failed only if that Generated update reported an error.
C13_MockAfterAllAdaptersFailed ==
  \A r \in Requests :
    AllConfiguredFailed(gen[r]) =>
      /\ gen[r].updates[1] = "Generated"
      /\ gen[r].calls[Len(gen[r].calls)] = "mock"
      /\ Len(gen[r].messages) = Len(gen[r].failed)
      /\ gen[r].pc = "updating" =>
           /\ gen[r].content = Some(MockOutput(gen[r].outline))
           /\ MockTraceWithReason(gen[r].trace,
                                  gen[r].messages[Len(gen[r].messages)])
      /\ gen[r].pc = "done" /\ gen[r].results[1] = "ok" =>
           /\ Row(gen[r].lessonId).status = "Generated"
           /\ Row(gen[r].lessonId).content =
                Some(MockOutput(Row(gen[r].lessonId).outline))
           /\ MockTraceWithReason(Get(Row(gen[r].lessonId).trace),
                                  gen[r].messages[Len(gen[r].messages)])
      /\ Row(gen[r].lessonId).status = "Failed" => gen[r].results[1] = "error"

\* C13 witness: Helicone and Gemini both failed and the record is Generated
\* with Gemini's message as fallback reason.
C13_Witness ==
  \E r \in Requests :
    /\ gen[r].pc = "done"
    /\ gen[r].failed = << "helicone", "gemini" >>
    /\ gen[r].results = << "ok" >>
    /\ Row(gen[r].lessonId).status = "Generated"
    /\ Get(Row(gen[r].lessonId).trace).fallback_reason =
         "Gemini API returned status"
    /\ gen[r].messages[1] # gen[r].messages[2]

\* ------------------------------------------------------------------- C14
\* One step of the store as far as the lifecycle goes: no record is deleted,
\* a record is created at Generating, a record at Generated or Failed is not
\* written again, and a record leaves Generating only for Generated or
\* Failed.
LifecycleStep ==
  /\ \A row \in lessons : \E next \in lessons' :
       /\ next.id = row.id
       /\ row.status # "Generating" => next = row
       /\ next.status # row.status =>
            row.status = "Generating" /\ next.status \in { "Generated", "Failed" }
  /\ \A next \in lessons' :
       (\A row \in lessons : row.id # next.id) => next.status = "Generating"
  /\ Cardinality(lessons') >= Cardinality(lessons)

\* C14 as stated: the lifecycle steps above, and the status of a record has
\* changed (exactly once) by the time its invocation has terminated.
C14_StatusChangesExactlyOnce ==
  [][/\ LifecycleStep
     /\ \A r \in Requests :
          gen'[r].pc = "done" =>
            \E row \in lessons' :
              row.id = gen'[r].lessonId /\ row.status # "Generating"]_vars

\* C14 amended: a record's status changes at most once, from Generating to
\* Generated or from Generating to Failed; Generated and Failed are
\* absorbing for status, content and trace; no record is deleted; and once
\* the invocation has terminated the status has changed exactly when one of
\* its updates succeeded.
C14_StatusChangesAtMostOnce ==
  [][/\ LifecycleStep
     /\ \A r \in Requests :
          gen'[r].pc = "done" =>
            \E row \in lessons' :
              /\ row.id = gen'[r].lessonId
              /\ row.status # "Generating" <=> Elem("ok", gen'[r].results)]_vars

\* C14 witness: one record has gone to Generated and another to Failed, and
\* both invocations have terminated.
C14_Witness ==
  \E r1, r2 \in Requests :
    /\ gen[r1].pc = "done" /\ gen[r2].pc = "done"
    /\ Row(gen[r1].lessonId).status = "Generated"
    /\ Row(gen[r2].lessonId).status = "Failed"

\* ------------------------------------------------------------------- C15
\* The invocation of request r is settling one of its store updates in this
\* step.
UpdateSettles(r) ==
  /\ gen[r].pc \in { "updating", "failing" }
  /\ gen'[r] # gen[r]

\* C15: with create requests running concurrently, every inserted record has
\* exactly one invocation, dispatched by the request that inserted it, and
\* every invocation has a record; a record is written only in a step in
\* which its own invocation settles an update, and that step writes no other
\* record.
C15_OneWriterPerRecord ==
  [][/\ \A row \in lessons' :
          /\ Cardinality({ r \in Requests :
                             gen'[r].pc # "none" /\ gen'[r].lessonId = row.id }) = 1
          /\ \E r \in Requests :
               /\ gen'[r].pc # "none" /\ gen'[r].lessonId = row.id
               /\ Answered(r)'
               /\ Get(post'[r].response).lessonId = Some(row.id)
               /\ post'[r].outline = row.outline
     /\ \A r \in Requests :
          gen'[r].pc # "none" => \E row \in lessons' : row.id = gen'[r].lessonId
     /\ \A row \in lessons : \A next \in lessons' :
          (next.id = row.id /\ next # row) =>
            \E r \in Requests :
              /\ UpdateSettles(r)
              /\ gen[r].lessonId = row.id
              /\ \A q \in Requests \ { r } : gen'[q] = gen[q]
     /\ \A r \in Requests :
          UpdateSettles(r) =>
            \A row \in lessons : row.id # gen[r].lessonId => row \in lessons']_vars

\* C15 witness: two invocations ran side by side; the one dispatched later
\* has written its record while the earlier one is still waiting for its
\* update, its record untouched.
C15_Witness ==
  \E r1, r2 \in Requests :
    /\ r1 < r2
    /\ gen[r1].pc = "updating" /\ Row(gen[r1].lessonId).status = "Generating"
    /\ gen[r2].pc = "done" /\ Row(gen[r2].lessonId).status = "Generated"
    /\ gen[r1].lessonId # gen[r2].lessonId

\* ------------------------------------------------------------------- C16
\* The words of s: the maximal runs of characters that are not whitespace.
RECURSIVE WordsFrom(_, _)
WordsFrom(s, cur) ==
  IF s = << >> THEN (IF cur = << >> THEN << >> ELSE << cur >>)
  ELSE IF Head(s) \in Whitespace
       THEN (IF cur = << >> THEN << >> ELSE << cur >>) \o WordsFrom(Tail(s), << >>)
       ELSE WordsFrom(Tail(s), Append(cur, Head(s)))
WhitespaceSeparatedWords(s) == WordsFrom(s, << >>)

\* The title the claim describes.
FirstSixWordsTitle(outline) ==
  LET ws == WhitespaceSeparatedWords(outline)
      joined == JoinSpace(SubSeq(ws, 1, IF Len(ws) < 6 THEN Len(ws) ELSE 6))
  IN IF Len(joined) <= 50 THEN joined
     ELSE SubSeq(joined, 1, 50) \o << ".", ".", "." >>

\* C16: the title stored at creation is the first six whitespace-separated
\* words of the outline joined by single spaces when that has at most 50
\* characters, else its first 50 characters followed by '...', also for
\* outlines whose words are separated by runs of spaces, tabs or newlines.
C16_TitleIsFirstSixWords ==
  \A row \in lessons : row.title = FirstSixWordsTitle(row.outline)

\* C16 restricted to outlines whose words are separated by single spaces
\* only, with no space in front.
C16_TitleIsFirstSixWordsSingleSpaced ==
  \A row \in lessons :
    SplitSpace(row.outline) = WhitespaceSeparatedWords(row.outline) =>
      row.title = FirstSixWordsTitle(row.outline)

\* ------------------------------------------------------------------- C17
\* C17: whenever GEMINI_API_KEY is not configured, so that the status probe
\* reports hasKey = false and the client shows its warning banner, every
\* generation produces mock content: no adapter is called, and the content
\* handed to the Generated update is the mock generator's output.
C17_MockWhenBannerShown ==
  \A r \in Requests :
    (/\ ~env.GEMINI_API_KEY
     /\ ~GET.hasKey
     /\ WarningBanner(setHasGeminiKey(GET))
     /\ gen[r].pc # "none") =>
      /\ gen[r].calls = << "mock" >>
      /\ gen[r].pc = "updating" =>
           gen[r].content = Some(MockOutput(gen[r].outline))
      /\ Row(gen[r].lessonId).status = "Generated" =>
           Row(gen[r].lessonId).content =
             Some(MockOutput(Row(gen[r].lessonId).outline))

\* ------------------------------------------------------------------- C18
Adapters == { "helicone", "gemini" }
IsAdapter(c) == c \in Adapters
\* The adapter calls invocation g has started, in order.
AdapterCalls(g) == SelectSeq(g.calls, IsAdapter)

\* C18: within one invocation each adapter is called at most once, every
\* adapter call but the last one started has failed (so a call starts only
\* after the previous one failed, and a failed adapter is not called again),
\* and the only call that can be in flight is the last one started.
C18_OneAdapterCallAtATime ==
  \A r \in Requests :
    LET ac == AdapterCalls(gen[r]) IN
      /\ \A i, j \in DOMAIN ac : ac[i] = ac[j] => i = j
      /\ Len(gen[r].failed) <= Len(ac)
      /\ SubSeq(ac, 1, Len(gen[r].failed)) = gen[r].failed
      /\ Len(ac) <= Len(gen[r].failed) + 1
      /\ gen[r].pc \in Adapters =>
           /\ Len(ac) = Len(gen[r].failed) + 1
           /\ ac[Len(ac)] = gen[r].pc
           /\ ~IsSome(gen[r].returned)
      /\ IsSome(gen[r].returned) =>
           Len(ac) = Len(gen[r].failed) + 1 /\ gen[r].pc = "updating"

\* C18 witness: the Gemini call is in flight after the Helicone call failed,
\* while another invocation has been through both adapters.
C18_Witness ==
  \E r1, r2 \in Requests :
    /\ gen[r1].pc = "gemini" /\ gen[r1].failed = << "helicone" >>
    /\ gen[r2].failed = << "helicone", "gemini" >>
    /\ gen[r2].calls = << "helicone", "gemini", "mock" >>

\* ------------------------------------------------------------------- C19
\* The completion has a first choice whose message content is not empty.
HeliconeHasContent(resp) ==
  /\ ~resp.threw
  /\ resp.choices # << >>
  /\ IsSome(resp.choices[1].content)
  /\ Get(resp.choices[1].content) # << >>

\* The fetch resolved with an ok status and a JSON body whose first
\* candidate has a first part with a text that is not empty.
GeminiHasContent(resp) ==
  /\ ~resp.rejected /\ resp.ok /\ resp.json
  /\ IsSome(resp.body.candidates)
  /\ Get(resp.body.candidates) # << >>
  /\ IsSome(Get(resp.body.candidates)[1].parts)
  /\ Get(Get(resp.body.candidates)[1].parts) # << >>
  /\ IsSome(Get(Get(resp.body.candidates)[1].parts)[1].text)
  /\ Get(Get(Get(resp.body.candidates)[1].parts)[1].text) # << >>

\* The adapter call of invocation r that settles in this step has failed and
\* the invocation has moved to the next strategy without taking any content
\* from it.
AdapterFailedAndAdvanced(r, adapter) ==
  /\ gen'[r].failed = Append(gen[r].failed, adapter)
  /\ ~IsSome(gen'[r].returned)
  /\ Len(gen'[r].calls) = Len(gen[r].calls) + 1
  /\ gen'[r].pc = "updating" => gen'[r].calls[Len(gen'[r].calls)] = "mock"

\* C19: an adapter returns text only when the provider response has a
\* candidate with non-empty content; on a network failure, a non-2xx status,
\* a malformed or empty body, an empty candidate or choice list or an empty
\* candidate text the adapter fails and the orchestrator advances to the next
\* fallback.
C19_AdapterFailsWithoutContent ==
  [][\A r \in Requests :
       /\ \A resp \in AllHeliconeResponses :
            (HeliconeReturn(r, resp) /\ ~HeliconeHasContent(resp)) =>
              AdapterFailedAndAdvanced(r, "helicone")
       /\ \A resp \in AllGeminiResponses :
            (GeminiReturn(r, resp) /\ ~GeminiHasContent(resp)) =>
              AdapterFailedAndAdvanced(r, "gemini")]_vars

\* ------------------------------------------------------------------- C20
\* The trace t names the adapter whose text became the content.
NamesAdapter(t, provider, model) ==
  /\ "provider" \in DOMAIN t /\ t.provider = provider
  /\ "model" \in DOMAIN t /\ t.model = model

\* C20: in every trace persisted with status Generated, provider and model
\* name the path that produced the content: Helicone's or Gemini's name and
\* model when that adapter's text is the content, and neither key when the
\* content came from the mock generator, also after failed adapter attempts.
C20_ProviderNamesContentPath ==
  \A r \in Requests :
    (/\ gen[r].pc = "done"
     /\ Row(gen[r].lessonId).status = "Generated") =>
      LET t == Get(Row(gen[r].lessonId).trace)
          path == gen[r].calls[Len(gen[r].calls)]
      IN CASE path = "helicone" -> NamesAdapter(t, "helicone", "gpt-4o-mini")
           [] path = "gemini" -> NamesAdapter(t, "gemini", "gemini-2.5-flash")
           [] path = "mock" ->
                "provider" \notin DOMAIN t /\ "model" \notin DOMAIN t

\* ------------------------------------------------------------------- C21
\* C21: in every trace persisted with status Generated, prompt is the exact
\* prompt text passed to the adapter that produced the content or, for mock
\* content, the prompt that would have been passed to an adapter: the normal
\* or the easter-egg prompt built from the outline.
C21_TracePromptIsAdapterPrompt ==
  \A row \in lessons :
    row.status = "Generated" =>
      /\ IsSome(row.trace)
      /\ Get(row.trace).prompt =
           BuildPrompt(row.outline, IsEasterEgg(row.outline))

\* ------------------------------------------------------------------- C22
\* The invocation of request r has issued its Generated update, or has
\* terminated after that update succeeded; GeneratedTrace(r) is then the
\* trace of that update, as issued or as persisted.
HasGeneratedTrace(r) ==
  \/ gen[r].pc = "updating"
  \/ /\ gen[r].pc = "done" /\ gen[r].results = << "ok" >>
     /\ Row(gen[r].lessonId).status = "Generated"
GeneratedTrace(r) ==
  IF gen[r].pc = "updating" THEN gen[r].trace
  ELSE Get(Row(gen[r].lessonId).trace)

\* C22 as stated: whenever at least one adapter attempt failed, the trace of
\* the Generated update has mock = true and fallback_reason equal to the
\* message of the last failed attempt; when none failed, fallback_reason is
\* absent.
C22_FallbackAlwaysFlagged ==
  \A r \in Requests :
    HasGeneratedTrace(r) =>
      IF gen[r].failed # << >>
      THEN MockTraceWithReason(GeneratedTrace(r),
                               gen[r].messages[Len(gen[r].messages)])
      ELSE "fallback_reason" \notin DOMAIN GeneratedTrace(r)

\* C22 amended: the trace of the Generated update has mock = true and
\* fallback_reason, equal to the message of the last failed attempt, exactly
\* when the content came from the mock generator after at least one failed
\* adapter attempt; when Helicone failed and Gemini returned, the trace has
\* neither mock nor fallback_reason; when no attempt failed, fallback_reason
\* is absent.
C22_FallbackFlaggedWhenMockRan ==
  \A r \in Requests :
    HasGeneratedTrace(r) =>
      LET t == GeneratedTrace(r)
          path == gen[r].calls[Len(gen[r].calls)]
      IN /\ (gen[r].failed # << >> /\ path = "mock") =>
              MockTraceWithReason(t, gen[r].messages[Len(gen[r].messages)])
         /\ (gen[r].failed # << >> /\ path # "mock") =>
              /\ gen[r].failed = << "helicone" >> /\ path = "gemini"
              /\ "mock" \notin DOMAIN t
              /\ "fallback_reason" \notin DOMAIN t
         /\ gen[r].failed = << >> => "fallback_reason" \notin DOMAIN t

\* C22 witness: one record persisted after Helicone failed and Gemini
\* returned, another persisted by the mock generator after a failure.
C22_Witness ==
  \E r1, r2 \in Requests :
    /\ gen[r1].pc = "done" /\ gen[r1].results = << "ok" >>
    /\ gen[r1].failed = << "helicone" >>
    /\ gen[r1].calls = << "helicone", "gemini" >>
    /\ "mock" \notin DOMAIN Get(Row(gen[r1].lessonId).trace)
    /\ gen[r2].pc = "done" /\ gen[r2].results = << "ok" >>
    /\ gen[r2].failed # << >>
    /\ gen[r2].calls[Len(gen[r2].calls)] = "mock"
    /\ "fallback_reason" \in DOMAIN Get(Row(gen[r2].lessonId).trace)

\* ------------------------------------------------------------------- C23
\* The invocation of request r takes a step: an adapter call or a store
\* update of its own settles.
OrchestratorStep(r) == gen[r].pc # "none" /\ gen'[r] # gen[r]

\* C23: no step of an orchestrator invocation changes the id, outline, title
\* or created_at of a record, adds or removes a record, or changes any field
\* of a record other than its own, whatever the interleaving of invocations.
C23_OrchestratorFrame ==
  [][\A r \in Requests :
       OrchestratorStep(r) =>
         /\ Cardinality(lessons') = Cardinality(lessons)
         /\ \A row \in lessons : \E next \in lessons' :
              /\ next.id = row.id
              /\ next.outline = row.outline
              /\ next.title = row.title
              /\ next.created_at = row.created_at
              /\ row.id # gen[r].lessonId => next = row]_vars

\* C23 witness: a record written Failed by its invocation, next to the
\* record of a different outline whose invocation is waiting for its own
\* Failed update.
C23_Witness ==
  \E r1, r2 \in Requests :
    /\ gen[r1].pc = "done" /\ Row(gen[r1].lessonId).status = "Failed"
    /\ Row(gen[r1].lessonId).outline = post[r1].outline
    /\ gen[r2].pc = "failing" /\ Row(gen[r2].lessonId).status = "Generating"
    /\ Row(gen[r2].lessonId).outline = post[r2].outline
    /\ post[r1].outline # post[r2].outline

\* ------------------------------------------------------------------- C24
\* The record of request r has been inserted.
Inserted(r) == gen[r].pc # "none"

\* C24 as stated: if every adapter call and every store update returns,
\* every inserted record eventually leaves Generating for Generated or
\* Failed.
C24_RecordLeavesGenerating ==
  \A r \in Requests :
    Inserted(r) ~>
      /\ HasRow(gen[r].lessonId)
      /\ Row(gen[r].lessonId).status \in { "Generated", "Failed" }

\* C24 amended: if every adapter call and every store update returns, the
\* invocation of every inserted record eventually finishes, and when it has
\* finished the record has left Generating for Generated or Failed exactly
\* if one of its two updates succeeded; if both reported an error the record
\* stays at Generating.
C24_InvocationFinishes ==
  \A r \in Requests :
    Inserted(r) ~>
      /\ gen[r].pc = "done"
      /\ IF Elem("ok", gen[r].results)
         THEN Row(gen[r].lessonId).status \in { "Generated", "Failed" }
         ELSE Row(gen[r].lessonId).status = "Generating"

\* C24 witness: an invocation has finished and left its record Failed after
\* its Generated update reported an error, while another has finished with
\* its record Generated.
C24_Witness ==
  \E r1, r2 \in Requests :
    /\ gen[r1].pc = "done" /\ gen[r1].results = << "error", "ok" >>
    /\ Row(gen[r1].lessonId).status = "Failed"
    /\ gen[r2].pc = "done" /\ gen[r2].results = << "ok" >>
    /\ Row(gen[r2].lessonId).status = "Generated"

\* ------------------------------------------------------------------- C25
\* Every change notification has been delivered and every fetchLessons call
\* has returned.
FeedQuiet ==
  /\ client.delivered = Changes
  /\ client.reading = 0
  /\ client.responses = { }

\* C25: the list the page shows never regresses (a record shown as
\* Generated or Failed is not shown as Generating later) and converges to the
\* store: once all change notifications have been delivered and all re-reads
\* have returned, the list equals the store's records.
C25_FeedConverges ==
  [][/\ \A shown \in client.lessons : \A later \in client'.lessons :
          (later.id = shown.id /\ shown.status # "Generating") =>
            later.status # "Generating"
     /\ FeedQuiet' => client'.lessons = lessons']_vars

============================================================================
